---------------------------- MODULE Spec2Model ----------------------------
(***************************************************************************)
(* A model of the turtle-market prediction market: the LMSR pricing        *)
(* functions (src/lmsr.py), the SQLite-backed ledgers (src/data.py) and    *)
(* the quote/confirm handlers of the Discord front end (src/main.py).      *)
(*                                                                         *)
(* Numbers.  The program computes with Python floats.  Here every dollar   *)
(* and share quantity is a fixed-point integer counting 1/SCALE units, and *)
(* math.exp / math.log are fixed-point series.  The liquidity parameter b  *)
(* is a whole number.  Where calc_shares is followed step by step the     *)
(* numbers also have the range of a float: above FloatMax they are inf.    *)
(*                                                                         *)
(* Concurrency.  Every handler is an asyncio coroutine; another handler    *)
(* can run at each await.  Each data.* call opens its own connection and   *)
(* commits on its own, so a handler is modelled as one step per data.*     *)
(* call, and update_balance / add_bet (a read call followed by a write on  *)
(* a second connection) as two steps each.  data.create_market and        *)
(* data.delete_market run on one connection and commit once: they are one  *)
(* step.  data.resolve_market is its SELECT, then its one transaction.     *)
(*                                                                         *)
(* Spec runs the admin commands beside the trades with the Confirm         *)
(* callbacks one at a time; SpecRace runs the callbacks concurrently, and  *)
(* SpecHeld does so from a market with a position; SpecDesk runs every     *)
(* command a user has, SpecSend the transfers concurrently.  SpecSolver   *)
(* follows one calc_shares call pass by pass, SpecTrip a purchase and its  *)
(* sale, SpecPair concurrent purchases on two markets.                     *)
(***************************************************************************)
EXTENDS Integers, Sequences, FiniteSets, TLC

VARIABLES
    markets,      \* market_info JOIN market_data: market_id -> record
    balances,     \* user_balances: user_id -> balance
    bets,         \* user_bets: <<user_id, market_id, outcome>> -> record
    trades,       \* trades table (append-only sequence)
    transfers,    \* transfers table (append-only sequence)
    resolutions,  \* resolutions table (append-only sequence)
    views,        \* the confirmation views sent to users (the pending quotes)
    tasks,        \* the running Confirm-button callbacks
    resolving,    \* the /resolve calls between their SELECT and their transaction
    reply,        \* the response to the latest admin command
    ndeleted,     \* history: how often each market id was deleted
    solver        \* the local variables of a running lmsr.calc_shares call

vars == <<markets, balances, bets, trades, transfers, resolutions, views, tasks, resolving,
          reply, ndeleted, solver>>
db   == <<markets, balances, bets, trades, transfers, resolutions>>

---------------------------------------------------------------------------
(* Bounds of the model *)

MaxViews     == 2    \* confirmation views ever sent
MaxTasks     == 2    \* Confirm callbacks ever started
MaxDeletes   == 1    \* deletions per market id
MaxResolving == 1    \* /resolve calls in flight at once
MaxSerial    == 1    \* Confirm callbacks running at once beside admin commands
FloatMax     == 1000000    \* the largest finite float, in 1/SCALE units

(* Program constants *)

SCALE                == 10000    \* fixed-point units per dollar / per share
E_INV                == 3679     \* exp(-1) in fixed point
DEFAULT_USER_BALANCE == 0        \* config.DEFAULT_USER_BALANCE
PRICE_TOL_MICRO      == 1        \* the 1e-6 of the final price check, in 1e-6
TOL_MICRO            == 1        \* calc_shares' tol = 1e-6, in 1e-6
MAX_ITER             == 100      \* calc_shares' max_iter
POOL_ID              == "AMM"    \* config.POOL_ID

MicroPerUnit == 1000000 \div SCALE   \* how many 1e-6 one fixed-point unit is

(* Inputs *)

Users          == {"u1", "u2"}
MarketIds      == {"m1"}
Sides          == {"YES", "NO"}
Resolutions    == {"YES", "NO", "HALF"}
LiquidityVals  == {2}
BuyAmounts     == {1 * SCALE}
SellPercents   == {50, 100}
InitialDeposit == 1 * SCALE
\* the b values the /create_market command passes on, 0 included
AnyLiquidityVals == LiquidityVals \cup {0}
\* the arguments <<delta_cash, q_yes, q_no, b, side>> of the calc_shares
\* calls that are followed step by step: everyday amounts, and amounts of
\* the order of the largest float
SolverCash == {1 * SCALE, 2 * SCALE}
SolverYes  == {0, 5000}
SolverNo   == {0, 3 * SCALE}
SolverB    == {1, 2}
EverydayArgs == SolverCash \X SolverYes \X SolverNo \X SolverB \X Sides
HugeArgs   == {<<40 * SCALE, 0, 50 * SCALE, 1, "YES">>,
               <<40 * SCALE, 0, 20 * SCALE, 1, "YES">>}
Newcomers      == {"u3"}           \* a user with no user_balances row yet
SendAmounts    == {1 * SCALE}
ViewIds        == 1 .. MaxViews
TaskIds        == 1 .. MaxTasks

---------------------------------------------------------------------------
(* Helpers on finite maps *)

Abs(x)    == IF x < 0 THEN -x ELSE x
Max(x, y) == IF x >= y THEN x ELSE y

Put(f, k, v) == [x \in DOMAIN f \cup {k} |-> IF x = k THEN v ELSE f[x]]
Remove(f, k) == [x \in DOMAIN f \ {k} |-> f[x]]

---------------------------------------------------------------------------
(* src/lmsr.py in fixed point *)

MulFix(a, c) == (a * c) \div SCALE
DivFix(a, c) == (a * SCALE) \div c

RECURSIVE ExpSeries(_, _, _, _)
ExpSeries(f, term, n, acc) ==
    IF term = 0 THEN acc
    ELSE ExpSeries(f, MulFix(term, f) \div (n + 1), n + 1, acc + term)

RECURSIVE ExpIntNeg(_, _)
ExpIntNeg(k, acc) ==
    IF k = 0 \/ acc = 0 THEN acc ELSE ExpIntNeg(k - 1, MulFix(acc, E_INV))

\* math.exp(z) for z <= 0: exp(-k-f) = exp(-1)^k / exp(f), 0 <= f < 1
Exp(z) ==
    LET d  == -z
        k  == d \div SCALE
        f  == d % SCALE
        ef == ExpSeries(f, SCALE, 0, 0)
    IN  ExpIntNeg(k, (SCALE * SCALE) \div ef)

RECURSIVE LogSeries(_, _, _, _)
LogSeries(t2, pow, n, acc) ==
    IF pow = 0 THEN acc
    ELSE LogSeries(t2, MulFix(pow, t2), n + 2, acc + pow \div n)

\* math.log(z) for 1 <= z <= 2: 2 * atanh((z-1)/(z+1))
Log(z) ==
    LET t == ((z - SCALE) * SCALE) \div (z + SCALE)
    IN  2 * LogSeries(MulFix(t, t), t, 1, 0)

lmsr_cost(q_yes, q_no, b) ==
    LET x == q_yes \div b
        y == q_no \div b
        m == Max(x, y)
    IN  b * (m + Log(Exp(x - m) + Exp(y - m)))

lmsr_price(q_yes, q_no, b) ==
    LET x  == q_yes \div b
        y  == q_no \div b
        m  == Max(x, y)
        ex == Exp(x - m)
        ey == Exp(y - m)
    IN  DivFix(ex, ex + ey)

CostAfter(dq, q_yes, q_no, b, side) ==
    IF side = "YES" THEN lmsr_cost(q_yes + dq, q_no, b)
    ELSE lmsr_cost(q_yes, q_no + dq, b)

\* abs(c_mid - target) < tol
WithinTol(diff) == Abs(diff) * MicroPerUnit < TOL_MICRO

RECURSIVE ExpandHigh(_, _, _, _, _, _)
ExpandHigh(high, target, q_yes, q_no, b, side) ==
    IF CostAfter(high, q_yes, q_no, b, side) >= target THEN high
    ELSE ExpandHigh(high * 2, target, q_yes, q_no, b, side)

RECURSIVE Bisect(_, _, _, _, _, _, _, _)
Bisect(low, high, i, target, q_yes, q_no, b, side) ==
    IF i = MAX_ITER THEN (low + high) \div 2
    ELSE LET mid   == (low + high) \div 2
             c_mid == CostAfter(mid, q_yes, q_no, b, side)
         IN  IF WithinTol(c_mid - target) THEN mid
             ELSE IF c_mid > target
                  THEN Bisect(low, mid, i + 1, target, q_yes, q_no, b, side)
                  ELSE IF mid = low
                  THEN mid    \* the passes left keep low and high, and mid
                  ELSE Bisect(mid, high, i + 1, target, q_yes, q_no, b, side)

calc_shares(delta_cash, q_yes, q_no, b, side) ==
    LET current_cost == lmsr_cost(q_yes, q_no, b)
        target       == current_cost + delta_cash
        high0        == Max((delta_cash \div b) * b, SCALE)
        high         == ExpandHigh(high0, target, q_yes, q_no, b, side)
    IN  Bisect(0, high, 0, target, q_yes, q_no, b, side)

---------------------------------------------------------------------------
(* calc_shares step by step, with the range of a Python float.  A float    *)
(* above FloatMax is inf; inf - inf is nan; every comparison with nan is   *)
(* false.                                                                  *)

Inf == FloatMax + 1
NaN == FloatMax + 2

IsFinite(x) == x <= FloatMax
Overflow(x) == IF x > FloatMax THEN Inf ELSE x

FAdd(a, c) == IF a = NaN \/ c = NaN THEN NaN
              ELSE IF a = Inf \/ c = Inf THEN Inf
              ELSE Overflow(a + c)
FDouble(a) == FAdd(a, a)
FHalf(a)   == IF IsFinite(a) THEN a \div 2 ELSE a
FGe(a, c)  == a # NaN /\ c # NaN /\ a >= c
FGt(a, c)  == a # NaN /\ c # NaN /\ a > c

\* lmsr_cost(q_yes + dq, q_no, b) or lmsr_cost(q_yes, q_no + dq, b): with
\* an infinite quantity x - m is inf - inf
FCostAfter(dq, q_yes, q_no, b, side) ==
    IF ~IsFinite(FAdd(IF side = "YES" THEN q_yes ELSE q_no, dq)) THEN NaN
    ELSE Overflow(CostAfter(dq, q_yes, q_no, b, side))

\* abs(c_mid - target) < tol
FWithinTol(c, target) ==
    IsFinite(c) /\ IsFinite(target) /\ WithinTol(c - target)

\* the locals of calc_shares before its first loop
StartSolver(delta_cash, q_yes, q_no, b, side) ==
    LET current_cost == Overflow(lmsr_cost(q_yes, q_no, b))
    IN  [pc |-> "expand", delta_cash |-> delta_cash, q_yes |-> q_yes,
         q_no |-> q_no, b |-> b, side |-> side,
         target |-> FAdd(current_cost, delta_cash),
         low |-> 0, high |-> Max((delta_cash \div b) * b, SCALE),
         i |-> 0, result |-> 0]

CostAt(dq) ==
    FCostAfter(dq, solver.q_yes, solver.q_no, solver.b, solver.side)

\* one pass of `while True`: break when c >= target, else high *= 2
calc_shares_expand ==
    /\ solver.pc = "expand"
    /\ solver' = IF FGe(CostAt(solver.high), solver.target)
                 THEN [solver EXCEPT !.pc = "bisect"]
                 ELSE [solver EXCEPT !.high = FDouble(@)]
    /\ UNCHANGED <<db, views, tasks, resolving, reply, ndeleted>>

\* one pass of `for _ in range(max_iter)`
calc_shares_bisect ==
    /\ solver.pc = "bisect"
    /\ solver.i < MAX_ITER
    /\ LET mid   == FHalf(FAdd(solver.low, solver.high))
           c_mid == CostAt(mid)
       IN  solver' =
               IF FWithinTol(c_mid, solver.target)
               THEN [solver EXCEPT !.pc = "done", !.result = mid]
               ELSE IF FGt(c_mid, solver.target)
               THEN [solver EXCEPT !.high = mid, !.i = @ + 1]
               ELSE [solver EXCEPT !.low = mid, !.i = @ + 1]
    /\ UNCHANGED <<db, views, tasks, resolving, reply, ndeleted>>

\* return (low + high) / 2 after the last pass
calc_shares_return ==
    /\ solver.pc = "bisect"
    /\ solver.i = MAX_ITER
    /\ solver' = [solver EXCEPT !.pc = "done",
                     !.result = FHalf(FAdd(solver.low, solver.high))]
    /\ UNCHANGED <<db, views, tasks, resolving, reply, ndeleted>>

---------------------------------------------------------------------------
(* src/data.py: the tables and the operations on them *)

EmptyMap == [x \in {} |-> 0]

\* a row of market_info JOIN market_data as INSERT INTO market_data(market_id)
\* leaves it: the column defaults
NewMarket(b) ==
    [b |-> b, yes |-> 0, no |-> 0, resolved |-> FALSE, resolution |-> "None",
     resolution_date |-> 0, implied_odds |-> SCALE \div 2, last_trade |-> 0,
     volume_traded |-> 0]

Shares(m, side) == IF side = "YES" THEN m.yes ELSE m.no

AddShares(m, side, dq) ==
    IF side = "YES" THEN [m EXCEPT !.yes = @ + dq] ELSE [m EXCEPT !.no = @ + dq]

\* save_markets: one UPDATE ... WHERE market_id = mid per market of the dict
save_markets(rows, dict) ==
    [mid \in DOMAIN rows |-> IF mid \in DOMAIN dict THEN dict[mid] ELSE rows[mid]]

\* get_balance: the row's balance, inserting the default row when there is none
\* a get_balance that writes the default over the record it finds
EnsureBalanceResetting(bals, user_id) ==
    Put(bals, user_id, DEFAULT_USER_BALANCE)

EnsureBalance(bals, user_id) ==
    IF user_id \in DOMAIN bals THEN bals
    ELSE Put(bals, user_id, DEFAULT_USER_BALANCE)

get_balance(bals, user_id) == EnsureBalance(bals, user_id)[user_id]

\* a balance write that deletes the row of an emptied account, as add_bet
\* deletes an emptied position
SetBalanceDroppingEmpty(bals, user_id, new_bal) ==
    IF user_id \notin DOMAIN bals THEN bals
    ELSE IF new_bal <= 0 THEN Remove(bals, user_id)
    ELSE [bals EXCEPT ![user_id] = new_bal]

\* the UPDATE of update_balance: SET balance = new_bal WHERE user_id = ?
SetBalance(bals, user_id, new_bal) ==
    IF user_id \in DOMAIN bals THEN [bals EXCEPT ![user_id] = new_bal] ELSE bals

NoBet == [shares |-> 0, cost_basis |-> 0]

\* add_bet's read: bets.get(user_id, {}).get(market_id, {}).get(outcome, {...})
current_bet(rows, user_id, market_id, outcome) ==
    IF <<user_id, market_id, outcome>> \in DOMAIN rows
    THEN rows[<<user_id, market_id, outcome>>] ELSE NoBet

\* a position write that stores the row whatever its shares
StoreBetAlways(rows, user_id, market_id, outcome, cur, delta_shares, delta_cost) ==
    Put(rows, <<user_id, market_id, outcome>>,
        [shares |-> cur.shares + delta_shares,
         cost_basis |-> cur.cost_basis + delta_cost])

\* add_bet's write: DELETE when new_shares <= 0, else INSERT OR REPLACE
StoreBet(rows, user_id, market_id, outcome, cur, delta_shares, delta_cost) ==
    LET new_shares == cur.shares + delta_shares
        new_cost   == cur.cost_basis + delta_cost
        key        == <<user_id, market_id, outcome>>
    IN  IF new_shares <= 0 THEN Remove(rows, key)
        ELSE Put(rows, key, [shares |-> new_shares, cost_basis |-> new_cost])

\* a payout that ignores which side the position is on
RedeemedAnySide(correct, outcome, shares) ==
    IF correct = "HALF" THEN MulFix(SCALE \div 2, shares) ELSE shares

\* resolve_market's payout of one position
Redeemed(correct, outcome, shares) ==
    IF correct = "HALF" THEN MulFix(SCALE \div 2, shares)
    ELSE IF outcome = correct THEN shares ELSE 0

\* the rows of SELECT user_id, outcome, shares FROM user_bets WHERE market_id=?
\* taken in one fixed order
PositionOrder ==
    <<<<"u1", "YES">>, <<"u1", "NO">>, <<"u2", "YES">>, <<"u2", "NO">>>>

PositionsOf(rows, market_id) ==
    SelectSeq(PositionOrder,
              LAMBDA p : <<p[1], market_id, p[2]>> \in DOMAIN rows)

\* a payout loop that counts the HALF payouts into total_paid
RECURSIVE PayoutCountingHalf(_, _, _, _, _)
PayoutCountingHalf(ps, rows, market_id, correct, st) ==
    IF ps = <<>> THEN st
    ELSE LET user_id  == Head(ps)[1]
             outcome  == Head(ps)[2]
             shares   == rows[<<user_id, market_id, outcome>>].shares
             redeemed == Redeemed(correct, outcome, shares)
             lost     == IF correct # "HALF" /\ outcome # correct
                         THEN st.total_lost + shares ELSE st.total_lost
         IN  PayoutCountingHalf(Tail(ps), rows, market_id, correct,
                 [balances   |-> [st.balances EXCEPT ![user_id] = @ + redeemed],
                  log        |-> Append(st.log,
                                    [user |-> user_id, market |-> market_id,
                                     outcome |-> outcome, shares |-> shares,
                                     redeemed |-> redeemed]),
                  total_paid |-> st.total_paid + redeemed,
                  total_lost |-> lost])

\* a payout loop that stops after the first position
PayoutFirst(ps, rows, market_id, correct, st) ==
    IF ps = <<>> THEN st
    ELSE LET user_id  == Head(ps)[1]
             outcome  == Head(ps)[2]
             shares   == rows[<<user_id, market_id, outcome>>].shares
             redeemed == Redeemed(correct, outcome, shares)
         IN  [balances   |-> [st.balances EXCEPT ![user_id] = @ + redeemed],
              log        |-> Append(st.log,
                                    [user |-> user_id, market |-> market_id,
                                     outcome |-> outcome, shares |-> shares,
                                     redeemed |-> redeemed]),
              total_paid |-> st.total_paid + redeemed,
              total_lost |-> st.total_lost]

\* the loop of resolve_market over the positions ps, from the state st
RECURSIVE Payout(_, _, _, _, _)
Payout(ps, rows, market_id, correct, st) ==
    IF ps = <<>> THEN st
    ELSE LET user_id  == Head(ps)[1]
             outcome  == Head(ps)[2]
             shares   == rows[<<user_id, market_id, outcome>>].shares
             redeemed == Redeemed(correct, outcome, shares)
             paid     == IF correct = "HALF" THEN st.total_paid
                         ELSE st.total_paid + redeemed
             lost     == IF correct # "HALF" /\ outcome # correct
                         THEN st.total_lost + shares ELSE st.total_lost
             bals     == IF user_id \in DOMAIN st.balances
                         THEN [st.balances EXCEPT ![user_id] = @ + redeemed]
                         ELSE st.balances
             row      == [user |-> user_id, market |-> market_id,
                          outcome |-> outcome, shares |-> shares,
                          redeemed |-> redeemed]
         IN  Payout(Tail(ps), rows, market_id, correct,
                    [balances |-> bals, log |-> Append(st.log, row),
                     total_paid |-> paid, total_lost |-> lost])

Reply(result, total_paid, total_lost) ==
    [result |-> result, total_paid |-> total_paid, total_lost |-> total_lost]

---------------------------------------------------------------------------
(* The state after init_db and the admin's deposits *)

\* no calc_shares call is being followed step by step
IdleSolver ==
    [pc |-> "idle", delta_cash |-> 0, q_yes |-> 0, q_no |-> 0, b |-> 0,
     side |-> "", target |-> 0, low |-> 0, high |-> 0, i |-> 0, result |-> 0]

NoView ==
    [kind |-> "none", state |-> "free", user |-> "", market |-> "",
     outcome |-> "", amount |-> 0, percent |-> 0, shares |-> 0, price |-> 0,
     quoted_at |-> <<0, 0>>, recipient |-> ""]

IdleTask ==
    [pc |-> "idle", view |-> 0, result |-> "none", bal |-> 0, new_amount |-> 0,
     new_avg |-> 0, cur |-> NoBet, snap |-> EmptyMap, balance |-> 0,
     effects |-> {}, resolved_at_check |-> FALSE, moved |-> FALSE]

Init ==
    /\ markets = EmptyMap
    /\ balances = [u \in Users |-> InitialDeposit]
    /\ bets = EmptyMap
    /\ trades = <<>>
    /\ transfers = <<>>
    /\ resolutions = <<>>
    /\ views = [v \in ViewIds |-> NoView]
    /\ tasks = [t \in TaskIds |-> IdleTask]
    /\ resolving = <<>>
    /\ reply = Reply("none", 0, 0)
    /\ ndeleted = [mid \in MarketIds |-> 0]
    /\ solver = IdleSolver

---------------------------------------------------------------------------
(* Admin commands *)

\* a create_market that replaces the record of an id that exists
create_market_replacing(id, b) ==
    /\ markets' = Put(markets, id, NewMarket(b))
    /\ reply' = IF id \in DOMAIN markets THEN Reply("DuplicateId", 0, 0)
                ELSE Reply("created", 0, 0)
    /\ UNCHANGED <<balances, bets, trades, transfers, resolutions, views,
                   tasks, resolving, ndeleted, solver>>

\* /create_market -> data.create_market
create_market(id, b) ==
    /\ markets' = IF id \in DOMAIN markets THEN markets
                  ELSE Put(markets, id, NewMarket(b))
    /\ reply' = IF id \in DOMAIN markets THEN Reply("DuplicateId", 0, 0)
                ELSE Reply("created", 0, 0)
    /\ UNCHANGED <<balances, bets, trades, transfers, resolutions, views,
                   tasks, resolving, ndeleted, solver>>

\* /delete_market and DeleteConfirmView.confirm -> data.delete_market
delete_market(id) ==
    /\ ndeleted[id] < MaxDeletes
    /\ IF id \notin DOMAIN markets
       THEN UNCHANGED <<markets, ndeleted>>
       ELSE /\ markets' = Remove(markets, id)
            /\ ndeleted' = [ndeleted EXCEPT ![id] = @ + 1]
    /\ UNCHANGED <<balances, bets, trades, transfers, resolutions, views,
                   tasks, resolving, reply, solver>>

\* a /resolve that does not look at the resolved flag
resolve_unchecked(market_id) ==
    /\ Len(resolving) < MaxResolving
    /\ IF market_id \notin DOMAIN markets
       THEN /\ reply' = Reply("NotFound", 0, 0)
            /\ UNCHANGED resolving
       ELSE /\ resolving' = Append(resolving, market_id)
            /\ UNCHANGED reply
    /\ UNCHANGED <<db, views, tasks, ndeleted, solver>>

\* /resolve -> data.resolve_market, up to `if was_resolved: raise`: the
\* SELECT runs before the connection opens its transaction.  The locks SQLite
\* holds between the SELECT and the UPDATE are not modelled: other commits
\* may fall between this step and resolve_commit.
resolve_market(market_id) ==
    /\ Len(resolving) < MaxResolving
    /\ IF market_id \notin DOMAIN markets
       THEN /\ reply' = Reply("NotFound", 0, 0)
            /\ UNCHANGED resolving
       ELSE IF markets[market_id].resolved
       THEN /\ reply' = Reply("AlreadyResolved", 0, 0)
            /\ UNCHANGED resolving
       ELSE /\ resolving' = Append(resolving, market_id)
            /\ UNCHANGED reply
    /\ UNCHANGED <<db, views, tasks, ndeleted, solver>>

DropAt(s, i) == SubSeq(s, 1, i - 1) \o SubSeq(s, i + 1, Len(s))

\* a resolution that deletes the positions it has paid
resolve_commit_clearing(i, correct) ==
    /\ i \in DOMAIN resolving
    /\ LET market_id == resolving[i]
           out == Payout(PositionsOf(bets, market_id), bets, market_id, correct,
                         [balances |-> balances, log |-> resolutions,
                          total_paid |-> 0, total_lost |-> 0])
       IN  /\ markets' = IF market_id \in DOMAIN markets
                         THEN [markets EXCEPT
                                 ![market_id].resolved = TRUE,
                                 ![market_id].resolution = correct,
                                 ![market_id].resolution_date = 1]
                         ELSE markets
           /\ balances' = out.balances
           /\ resolutions' = out.log
           /\ bets' = [k \in {x \in DOMAIN bets : x[2] # market_id} |-> bets[k]]
           /\ reply' = Reply("ok", out.total_paid, out.total_lost)
    /\ resolving' = DropAt(resolving, i)
    /\ UNCHANGED <<trades, transfers, views, tasks, ndeleted, solver>>

\* a resolution whose UPDATE sets the flag and leaves the outcome columns
resolve_commit_flag_only(i, correct) ==
    /\ i \in DOMAIN resolving
    /\ LET market_id == resolving[i]
           out == Payout(PositionsOf(bets, market_id), bets, market_id, correct,
                         [balances |-> balances, log |-> resolutions,
                          total_paid |-> 0, total_lost |-> 0])
       IN  /\ markets' = IF market_id \in DOMAIN markets
                         THEN [markets EXCEPT ![market_id].resolved = TRUE]
                         ELSE markets
           /\ balances' = out.balances
           /\ resolutions' = out.log
           /\ reply' = Reply("ok", out.total_paid, out.total_lost)
    /\ resolving' = DropAt(resolving, i)
    /\ UNCHANGED <<bets, trades, transfers, views, tasks, ndeleted, solver>>

\* a resolution that takes what it pays from the pool account
resolve_commit_debiting(i, correct) ==
    /\ i \in DOMAIN resolving
    /\ LET market_id == resolving[i]
           out == Payout(PositionsOf(bets, market_id), bets, market_id, correct,
                         [balances |-> balances, log |-> resolutions,
                          total_paid |-> 0, total_lost |-> 0])
       IN  /\ markets' = IF market_id \in DOMAIN markets
                         THEN [markets EXCEPT
                                 ![market_id].resolved = TRUE,
                                 ![market_id].resolution = correct,
                                 ![market_id].resolution_date = 1]
                         ELSE markets
           /\ balances' = SetBalance(out.balances, POOL_ID,
                                     get_balance(out.balances, POOL_ID)
                                         - out.total_paid)
           /\ resolutions' = out.log
           /\ reply' = Reply("ok", out.total_paid, out.total_lost)
    /\ resolving' = DropAt(resolving, i)
    /\ UNCHANGED <<bets, trades, transfers, views, tasks, ndeleted, solver>>

\* the transaction of data.resolve_market: the UPDATE of market_data, the
\* payout loop, and the one commit
resolve_commit(i, correct) ==
    /\ i \in DOMAIN resolving
    /\ LET market_id == resolving[i]
           out == Payout(PositionsOf(bets, market_id), bets, market_id, correct,
                         [balances |-> balances, log |-> resolutions,
                          total_paid |-> 0, total_lost |-> 0])
       IN  /\ markets' = IF market_id \in DOMAIN markets
                         THEN [markets EXCEPT
                                 ![market_id].resolved = TRUE,
                                 ![market_id].resolution = correct,
                                 ![market_id].resolution_date = 1]
                         ELSE markets
           /\ balances' = out.balances
           /\ resolutions' = out.log
           /\ reply' = Reply("ok", out.total_paid, out.total_lost)
    /\ resolving' = DropAt(resolving, i)
    /\ UNCHANGED <<bets, trades, transfers, views, tasks, ndeleted, solver>>

\* the transaction is interrupted before db.commit(): the connection closes
\* and SQLite rolls its statements back
resolve_interrupted(i) ==
    /\ i \in DOMAIN resolving
    /\ resolving' = DropAt(resolving, i)
    /\ reply' = Reply("Interrupted", 0, 0)
    /\ UNCHANGED <<db, views, tasks, ndeleted, solver>>

---------------------------------------------------------------------------
(* User commands: /buy and /sell compute a quote and send a view *)

FirstFree(v) ==
    /\ views[v].state = "free"
    /\ \A w \in ViewIds : w < v => views[w].state # "free"

Running == {t \in TaskIds : tasks[t].pc \notin {"idle", "done"}}

\* the next callback to start is t, and fewer than limit callbacks are running
FirstIdle(t, limit) ==
    /\ tasks[t].pc = "idle"
    /\ \A w \in TaskIds : w < t => tasks[w].pc # "idle"
    /\ Cardinality(Running) < limit

\* /buy
buy(v, user_id, id, outcome, amount) ==
    /\ FirstFree(v)
    /\ IF id \notin DOMAIN markets
       THEN UNCHANGED <<balances, views>>
       ELSE IF markets[id].resolved
       THEN UNCHANGED <<balances, views>>
       ELSE /\ balances' = EnsureBalance(balances, user_id)
            /\ IF amount <= 0 \/ amount > get_balance(balances, user_id)
               THEN UNCHANGED views
               ELSE IF markets[id].b = 0
               THEN UNCHANGED views    \* ZeroDivisionError in lmsr_cost
               ELSE LET m      == markets[id]
                        shares == calc_shares(amount, m.yes, m.no, m.b, outcome)
                        price  == DivFix(amount, shares)
                    IN  views' = [views EXCEPT ![v] =
                               [NoView EXCEPT !.kind = "buy", !.state = "open",
                                   !.user = user_id, !.market = id,
                                   !.outcome = outcome, !.amount = amount,
                                   !.shares = shares, !.price = price,
                                   !.quoted_at = <<m.yes, m.no>>]]
    /\ UNCHANGED <<markets, bets, trades, transfers, resolutions, tasks,
                   resolving, reply, ndeleted, solver>>

\* /sell
sell(v, user_id, id, outcome, percent) ==
    /\ FirstFree(v)
    /\ IF id \notin DOMAIN markets
       THEN UNCHANGED views
       ELSE IF markets[id].resolved
       THEN UNCHANGED views
       ELSE LET owned == current_bet(bets, user_id, id, outcome).shares
            IN  IF owned <= 0
                THEN UNCHANGED views
                ELSE IF percent < 1 \/ percent > 100
                THEN UNCHANGED views
                ELSE IF markets[id].b = 0
                THEN UNCHANGED views    \* ZeroDivisionError in lmsr_cost
                ELSE LET m              == markets[id]
                         shares_to_sell == (owned * percent) \div 100
                         current_cost   == lmsr_cost(m.yes, m.no, m.b)
                         new_cost       ==
                             CostAfter(-shares_to_sell, m.yes, m.no, m.b, outcome)
                         amount         == current_cost - new_cost
                         price          == IF shares_to_sell # 0
                                           THEN DivFix(amount, shares_to_sell)
                                           ELSE 0
                     IN  views' = [views EXCEPT ![v] =
                                [NoView EXCEPT !.kind = "sell", !.state = "open",
                                    !.user = user_id, !.market = id,
                                    !.outcome = outcome, !.percent = percent,
                                    !.shares = shares_to_sell, !.price = price,
                                    !.quoted_at = <<m.yes, m.no>>]]
    /\ UNCHANGED <<markets, balances, bets, trades, transfers, resolutions,
                   tasks, resolving, reply, ndeleted, solver>>

\* /send
send(v, sender_id, recipient_id, amount) ==
    /\ FirstFree(v)
    /\ IF recipient_id = sender_id
       THEN UNCHANGED <<balances, views>>
       ELSE IF amount <= 0
       THEN UNCHANGED <<balances, views>>
       ELSE /\ balances' = EnsureBalance(balances, sender_id)
            /\ IF amount > get_balance(balances, sender_id)
               THEN UNCHANGED views
               ELSE views' = [views EXCEPT ![v] =
                        [NoView EXCEPT !.kind = "send", !.state = "open",
                            !.user = sender_id, !.recipient = recipient_id,
                            !.amount = amount]]
    /\ UNCHANGED <<markets, bets, trades, transfers, resolutions, tasks,
                   resolving, reply, ndeleted, solver>>

\* a cancel that pays the quoted amount back to the user
cancel_refunding(v) ==
    /\ views[v].state = "open"
    /\ views' = [views EXCEPT ![v].state = "closed"]
    /\ balances' = SetBalance(balances, views[v].user,
                              get_balance(balances, views[v].user) + SCALE)
    /\ UNCHANGED <<markets, bets, trades, transfers, resolutions, tasks,
                   resolving, reply, ndeleted, solver>>

\* BuyConfirmView.cancel / SellConfirmView.cancel / SendConfirmView.cancel:
\* edit_message(view=None)
cancel(v) ==
    /\ views[v].state = "open"
    /\ views' = [views EXCEPT ![v].state = "closed"]
    /\ UNCHANGED <<db, tasks, resolving, reply, ndeleted, solver>>

\* on_timeout after 60 s: the view stops taking clicks
on_timeout(v) ==
    /\ views[v].state = "open"
    /\ views' = [views EXCEPT ![v].state = "closed"]
    /\ UNCHANGED <<db, tasks, resolving, reply, ndeleted, solver>>

---------------------------------------------------------------------------
(* The Confirm callbacks, one step per awaited data.* call *)

ViewOf(t) == views[tasks[t].view]

\* a price check that only sees the price rise
PriceRose(new_avg, price) ==
    (new_avg - price) * MicroPerUnit > PRICE_TOL_MICRO

\* abs(new_avg - self.price) > 1e-6
PriceMoved(new_avg, price) ==
    Abs(new_avg - price) * MicroPerUnit > PRICE_TOL_MICRO

Finished(t, v, result, closes, effects) ==
    /\ tasks' = [tasks EXCEPT ![t] =
                   [IdleTask EXCEPT !.pc = "done", !.view = v, !.result = result,
                       !.effects = effects,
                       !.moved = tasks[t].moved,
                       !.new_avg = tasks[t].new_avg,
                       !.resolved_at_check = tasks[t].resolved_at_check]]
    /\ views' = IF closes THEN [views EXCEPT ![v].state = "closed"] ELSE views

\* BuyConfirmView.confirm up to the final price check
BuyConfirmView_confirm(t, v, limit) ==
    /\ FirstIdle(t, limit)
    /\ views[v].state = "open"
    /\ views[v].kind = "buy"
    /\ IF views[v].market \notin DOMAIN markets
       THEN Finished(t, v, "KeyError", FALSE, {})
       ELSE LET m          == markets[views[v].market]
                new_shares == calc_shares(views[v].amount, m.yes, m.no, m.b,
                                          views[v].outcome)
                new_avg    == DivFix(views[v].amount, new_shares)
            IN  IF PriceMoved(new_avg, views[v].price)
                THEN /\ tasks' = [tasks EXCEPT ![t] =
                            [IdleTask EXCEPT !.pc = "done", !.view = v,
                                !.result = "PriceMoved", !.new_avg = new_avg,
                                !.moved = TRUE,
                                !.resolved_at_check = m.resolved]]
                     /\ views' = [views EXCEPT ![v].state = "closed"]
                ELSE /\ tasks' = [tasks EXCEPT ![t] =
                            [IdleTask EXCEPT !.pc = "user_get", !.view = v,
                                !.result = "running", !.new_avg = new_avg,
                                !.new_amount = views[v].amount,
                                !.resolved_at_check = m.resolved]]
                     /\ UNCHANGED views
    /\ UNCHANGED <<db, resolving, reply, ndeleted, solver>>

\* SellConfirmView.confirm up to the final price check
SellConfirmView_confirm(t, v, limit) ==
    /\ FirstIdle(t, limit)
    /\ views[v].state = "open"
    /\ views[v].kind = "sell"
    /\ IF views[v].market \notin DOMAIN markets
       THEN Finished(t, v, "KeyError", FALSE, {})
       ELSE LET m            == markets[views[v].market]
                current_cost == lmsr_cost(m.yes, m.no, m.b)
                new_cost     == CostAfter(-views[v].shares, m.yes, m.no, m.b,
                                          views[v].outcome)
                new_amount   == current_cost - new_cost
                new_avg      == DivFix(new_amount, views[v].shares)
            IN  IF PriceMoved(new_avg, views[v].price)
                THEN /\ tasks' = [tasks EXCEPT ![t] =
                            [IdleTask EXCEPT !.pc = "done", !.view = v,
                                !.result = "PriceMoved", !.new_avg = new_avg,
                                !.moved = TRUE,
                                !.resolved_at_check = m.resolved]]
                     /\ views' = [views EXCEPT ![v].state = "closed"]
                ELSE /\ tasks' = [tasks EXCEPT ![t] =
                            [IdleTask EXCEPT !.pc = "user_get", !.view = v,
                                !.result = "running", !.new_avg = new_avg,
                                !.new_amount = -new_amount,
                                !.snap = markets,
                                !.resolved_at_check = m.resolved]]
                     /\ UNCHANGED views
    /\ UNCHANGED <<db, resolving, reply, ndeleted, solver>>

\* SendConfirmView.confirm up to the final balance check
SendConfirmView_confirm(t, v, limit) ==
    /\ FirstIdle(t, limit)
    /\ views[v].state = "open"
    /\ views[v].kind = "send"
    /\ balances' = EnsureBalance(balances, views[v].user)
    /\ IF views[v].amount > get_balance(balances, views[v].user)
       THEN Finished(t, v, "InsufficientFunds", TRUE, {})
       ELSE /\ tasks' = [tasks EXCEPT ![t] =
                   [IdleTask EXCEPT !.pc = "user_get", !.view = v,
                       !.result = "running",
                       !.new_amount = views[v].amount]]
            /\ UNCHANGED views
    /\ UNCHANGED <<markets, bets, trades, transfers, resolutions, resolving,
                   reply, ndeleted, solver>>

\* whose balance the running update_balance call is about, and its delta:
\* a buy pays self.amount to the pool, a sell receives new_amount from it, a
\* transfer pays self.amount to the recipient
\* (tasks[t].new_amount is the signed dollar amount the user pays)
Account(t) == IF tasks[t].pc \in {"user_get", "user_set"}
              THEN ViewOf(t).user
              ELSE IF ViewOf(t).kind = "send" THEN ViewOf(t).recipient
              ELSE POOL_ID

Delta(t) == IF tasks[t].pc \in {"user_get", "user_set"}
            THEN -tasks[t].new_amount ELSE tasks[t].new_amount

SignedShares(t) == IF ViewOf(t).kind = "buy"
                   THEN ViewOf(t).shares ELSE -ViewOf(t).shares

\* update_balance: bal = await get_balance(user_id)
update_balance_read(t) ==
    /\ tasks[t].pc \in {"user_get", "pool_get"}
    /\ balances' = EnsureBalance(balances, Account(t))
    /\ tasks' = [tasks EXCEPT
                   ![t].bal = get_balance(balances, Account(t)),
                   ![t].pc = IF @ = "user_get" THEN "user_set" ELSE "pool_set"]
    /\ UNCHANGED <<markets, bets, trades, transfers, resolutions, views,
                   resolving, reply, ndeleted, solver>>

\* update_balance: UPDATE user_balances SET balance = bal + delta
update_balance_write(t) ==
    /\ tasks[t].pc \in {"user_set", "pool_set"}
    /\ balances' = SetBalance(balances, Account(t), tasks[t].bal + Delta(t))
    /\ tasks' = [tasks EXCEPT
                   ![t].bal = 0,
                   ![t].effects = @ \cup {IF tasks[t].pc = "user_set"
                                          THEN "balance" ELSE "pool"},
                   ![t].pc = IF @ = "user_set" THEN "pool_get"
                             ELSE IF ViewOf(t).kind = "send" THEN "log_bal"
                             ELSE "bet_load"]
    /\ UNCHANGED <<markets, bets, trades, transfers, resolutions, views,
                   resolving, reply, ndeleted, solver>>

\* add_bet: bets = await load_bets()
add_bet_read(t) ==
    /\ tasks[t].pc = "bet_load"
    /\ tasks' = [tasks EXCEPT
                   ![t].cur = current_bet(bets, ViewOf(t).user, ViewOf(t).market,
                                          ViewOf(t).outcome),
                   ![t].pc = "bet_store"]
    /\ UNCHANGED <<db, views, resolving,
                   reply, ndeleted, solver>>

\* add_bet: DELETE or INSERT OR REPLACE of the position row
add_bet_write(t) ==
    /\ tasks[t].pc = "bet_store"
    /\ bets' = StoreBet(bets, ViewOf(t).user, ViewOf(t).market, ViewOf(t).outcome,
                        tasks[t].cur, SignedShares(t), tasks[t].new_amount)
    /\ tasks' = [tasks EXCEPT
                   ![t].cur = NoBet,
                   ![t].effects = @ \cup {"position"},
                   ![t].pc = IF ViewOf(t).kind = "buy" THEN "mk_load" ELSE "mk_save"]
    /\ UNCHANGED <<markets, balances, trades, transfers, resolutions, views,
                   resolving, reply, ndeleted, solver>>

\* a market update that keeps the implied odds it loaded
TradedStaleOdds(m, t) ==
    LET m1 == AddShares(m, ViewOf(t).outcome, SignedShares(t))
    IN  [m1 EXCEPT !.last_trade = t,
                   !.volume_traded = @ + Abs(tasks[t].new_amount)]

\* the in-memory update of the market's dict entry before save_markets
Traded(m, t) ==
    LET m1 == AddShares(m, ViewOf(t).outcome, SignedShares(t))
    IN  [m1 EXCEPT !.implied_odds = lmsr_price(m1.yes, m1.no, m1.b),
                   !.last_trade = t,
                   !.volume_traded = @ + Abs(tasks[t].new_amount)]

\* BuyConfirmView.confirm: markets = await data.load_markets(), a second time
reload_markets(t) ==
    /\ tasks[t].pc = "mk_load"
    /\ IF ViewOf(t).market \notin DOMAIN markets
       THEN Finished(t, tasks[t].view, "KeyError", FALSE, tasks[t].effects)
       ELSE /\ tasks' = [tasks EXCEPT ![t].snap = markets, ![t].pc = "mk_save"]
            /\ UNCHANGED views
    /\ UNCHANGED <<db, resolving, reply, ndeleted, solver>>

\* await data.save_markets(markets), the dict loaded earlier with this
\* market's entry updated
write_markets(t) ==
    /\ tasks[t].pc = "mk_save"
    /\ LET mid  == ViewOf(t).market
           dict == [tasks[t].snap EXCEPT ![mid] = Traded(@, t)]
       IN  /\ markets' = save_markets(markets, dict)
           /\ tasks' = [tasks EXCEPT
                          ![t].snap = EmptyMap,
                          ![t].effects = IF mid \in DOMAIN markets
                                         THEN @ \cup {"market"} ELSE @,
                          ![t].pc = "log_bal"]
    /\ UNCHANGED <<balances, bets, trades, transfers, resolutions, views,
                   resolving, reply, ndeleted, solver>>

\* balance = await data.get_balance(self.user_id)
read_balance(t) ==
    /\ tasks[t].pc = "log_bal"
    /\ balances' = EnsureBalance(balances, ViewOf(t).user)
    /\ tasks' = [tasks EXCEPT
                   ![t].balance = get_balance(balances, ViewOf(t).user),
                   ![t].pc = IF ViewOf(t).kind = "send" THEN "log_transfer"
                             ELSE "log_trade"]
    /\ UNCHANGED <<markets, bets, trades, transfers, resolutions, views,
                   resolving, reply, ndeleted, solver>>

\* a trade log that records the size of a trade without its sign
log_trade_unsigned(t) ==
    /\ tasks[t].pc = "log_trade"
    /\ trades' = Append(trades,
                        [user |-> ViewOf(t).user, market |-> ViewOf(t).market,
                         outcome |-> ViewOf(t).outcome,
                         shares |-> Abs(SignedShares(t)),
                         amount |-> Abs(tasks[t].new_amount),
                         price |-> ViewOf(t).price,
                         balance |-> tasks[t].balance, task |-> t])
    /\ Finished(t, tasks[t].view, "ok", TRUE, tasks[t].effects \cup {"log"})
    /\ UNCHANGED <<markets, balances, bets, transfers, resolutions, resolving,
                   reply, ndeleted, solver>>

\* await data.log_trade(...), then the broadcast and edit_message(view=None)
log_trade(t) ==
    /\ tasks[t].pc = "log_trade"
    /\ trades' = Append(trades,
                        [user |-> ViewOf(t).user, market |-> ViewOf(t).market,
                         outcome |-> ViewOf(t).outcome,
                         shares |-> SignedShares(t),
                         amount |-> tasks[t].new_amount,
                         price |-> ViewOf(t).price,
                         balance |-> tasks[t].balance, task |-> t])
    /\ Finished(t, tasks[t].view, "ok", TRUE, tasks[t].effects \cup {"log"})
    /\ UNCHANGED <<markets, balances, bets, transfers, resolutions, resolving,
                   reply, ndeleted, solver>>

\* log_transfer and the edit_message(view=None) after it
log_transfer(t) ==
    /\ tasks[t].pc = "log_transfer"
    /\ transfers' = Append(transfers,
                           [type |-> "transfer", from_user |-> ViewOf(t).user,
                            to_user |-> ViewOf(t).recipient,
                            amount |-> ViewOf(t).amount,
                            balance |-> tasks[t].balance, task |-> t])
    /\ Finished(t, tasks[t].view, "ok", TRUE, tasks[t].effects \cup {"log"})
    /\ UNCHANGED <<markets, balances, bets, trades, resolutions, resolving,
                   reply, ndeleted, solver>>

---------------------------------------------------------------------------

(* By the symmetry of the users and of the two sides, the first quote is  *)
(* taken to be u1's, on YES.                                              *)
QuoteUsers(v) == IF v = 1 THEN {"u1"} ELSE Users
QuoteSides(v) == IF v = 1 THEN {"YES"} ELSE Sides

Quote ==
    \/ \E v \in ViewIds : \E u \in QuoteUsers(v), id \in MarketIds,
          o \in QuoteSides(v), a \in BuyAmounts : buy(v, u, id, o, a)
    \/ \E v \in ViewIds, u \in Users, id \in MarketIds, o \in Sides,
          p \in SellPercents : sell(v, u, id, o, p)

Step ==
    \/ \E t \in TaskIds : update_balance_read(t)
    \/ \E t \in TaskIds : update_balance_write(t)
    \/ \E t \in TaskIds : add_bet_read(t)
    \/ \E t \in TaskIds : add_bet_write(t)
    \/ \E t \in TaskIds : reload_markets(t)
    \/ \E t \in TaskIds : write_markets(t)
    \/ \E t \in TaskIds : read_balance(t)
    \/ \E t \in TaskIds : log_trade(t)

(* The admin's commands beside the trades, the Confirm callbacks running   *)
(* MaxSerial at a time.                                                    *)
Next ==
    \/ \E id \in MarketIds, b \in LiquidityVals : create_market(id, b)
    \/ \E id \in MarketIds : delete_market(id)
    \/ \E id \in MarketIds : resolve_market(id)
    \/ \E i \in 1 .. MaxResolving, c \in Resolutions : resolve_commit(i, c)
    \/ \E i \in 1 .. MaxResolving : resolve_interrupted(i)
    \/ Quote
    \/ \E t \in TaskIds, v \in ViewIds : BuyConfirmView_confirm(t, v, MaxSerial)
    \/ \E t \in TaskIds, v \in ViewIds : SellConfirmView_confirm(t, v, MaxSerial)
    \/ Step

Spec == Init /\ [][Next]_vars

(* The trades alone, the Confirm callbacks running concurrently.           *)
NextRace ==
    \/ \E id \in MarketIds, b \in LiquidityVals : create_market(id, b)
    \/ Quote
    \/ \E t \in TaskIds, v \in ViewIds : BuyConfirmView_confirm(t, v, MaxTasks)
    \/ \E t \in TaskIds, v \in ViewIds : SellConfirmView_confirm(t, v, MaxTasks)
    \/ Step

SpecRace == Init /\ [][NextRace]_vars

(* The state after u1 has bought YES on a new market, in one confirmed     *)
(* trade whose handler has ended.                                          *)
HeldMarket == CHOOSE id \in MarketIds : TRUE
HeldAmount == CHOOSE a \in BuyAmounts : TRUE
HeldB      == CHOOSE b \in LiquidityVals : TRUE
HeldShares == calc_shares(HeldAmount, 0, 0, HeldB, "YES")

InitHeld ==
    /\ markets = [id \in {HeldMarket} |->
                    [NewMarket(HeldB) EXCEPT
                        !.yes = HeldShares,
                        !.implied_odds = lmsr_price(HeldShares, 0, HeldB),
                        !.volume_traded = HeldAmount]]
    /\ balances = [a \in Users \cup {POOL_ID} |->
                     IF a = POOL_ID THEN HeldAmount
                     ELSE IF a = "u1" THEN InitialDeposit - HeldAmount
                     ELSE InitialDeposit]
    /\ bets = [k \in {<<"u1", HeldMarket, "YES">>} |->
                 [shares |-> HeldShares, cost_basis |-> HeldAmount]]
    /\ trades = <<[user |-> "u1", market |-> HeldMarket, outcome |-> "YES",
                   shares |-> HeldShares, amount |-> HeldAmount,
                   price |-> DivFix(HeldAmount, HeldShares),
                   balance |-> InitialDeposit - HeldAmount, task |-> 0]>>
    /\ transfers = <<>>
    /\ resolutions = <<>>
    /\ views = [v \in ViewIds |-> NoView]
    /\ tasks = [t \in TaskIds |-> IdleTask]
    /\ resolving = <<>>
    /\ reply = Reply("none", 0, 0)
    /\ ndeleted = [mid \in MarketIds |-> 0]
    /\ solver = IdleSolver

(* The requests of known and new users, their quotes cancelled, expired   *)
(* or confirmed, the Confirm callbacks running MaxSerial at a time.        *)
NextDesk ==
    \/ \E id \in MarketIds, b \in AnyLiquidityVals : create_market(id, b)
    \/ \E v \in ViewIds, u \in Users \cup Newcomers, id \in MarketIds,
          o \in Sides, a \in BuyAmounts : buy(v, u, id, o, a)
    \/ \E v \in ViewIds, u \in Users \cup Newcomers, id \in MarketIds,
          o \in Sides, p \in SellPercents : sell(v, u, id, o, p)
    \/ \E v \in ViewIds, u, r \in Users \cup Newcomers, a \in SendAmounts :
          send(v, u, r, a)
    \/ \E v \in ViewIds : cancel(v)
    \/ \E v \in ViewIds : on_timeout(v)
    \/ \E t \in TaskIds, v \in ViewIds : BuyConfirmView_confirm(t, v, MaxSerial)
    \/ \E t \in TaskIds, v \in ViewIds : SellConfirmView_confirm(t, v, MaxSerial)
    \/ Step

SpecDesk == Init /\ [][NextDesk]_vars

(* The transfers alone, the Confirm callbacks running concurrently.        *)
NextSend ==
    \/ \E v \in ViewIds, u \in Users, r \in Users \cup Newcomers,
          a \in SendAmounts : send(v, u, r, a)
    \/ \E v \in ViewIds : cancel(v)
    \/ \E t \in TaskIds, v \in ViewIds : SendConfirmView_confirm(t, v, MaxTasks)
    \/ \E t \in TaskIds : update_balance_read(t)
    \/ \E t \in TaskIds : update_balance_write(t)
    \/ \E t \in TaskIds : read_balance(t)
    \/ \E t \in TaskIds : log_transfer(t)

SpecSend == Init /\ [][NextSend]_vars

(* One calc_shares call on its own, from any of the chosen arguments.      *)
InitSolver ==
    /\ markets = EmptyMap
    /\ balances = [u \in Users |-> InitialDeposit]
    /\ bets = EmptyMap
    /\ trades = <<>>
    /\ transfers = <<>>
    /\ resolutions = <<>>
    /\ views = [v \in ViewIds |-> NoView]
    /\ tasks = [t \in TaskIds |-> IdleTask]
    /\ resolving = <<>>
    /\ reply = Reply("none", 0, 0)
    /\ ndeleted = [mid \in MarketIds |-> 0]
    /\ \E a \in EverydayArgs \cup HugeArgs :
          solver = StartSolver(a[1], a[2], a[3], a[4], a[5])

NextSolver ==
    \/ calc_shares_expand
    \/ calc_shares_bisect
    \/ calc_shares_return

SpecSolver == InitSolver /\ [][NextSolver]_vars

\* the interpreter runs the call on: it takes a step whenever one changes
\* the locals
SpecSolverRuns == SpecSolver /\ WF_vars(NextSolver)

(* A market in which u2 holds NO shares, the Confirm callbacks running     *)
(* MaxSerial at a time: a user buys and sells again.                      *)
TripMarket == CHOOSE id \in MarketIds : TRUE
TripB      == 2
TripNo     == 2 * SCALE
TripPaid   == lmsr_cost(0, TripNo, TripB) - lmsr_cost(0, 0, TripB)
TripAmounts == {2 * SCALE}
TripDeposit == 2 * SCALE

InitTrip ==
    /\ markets = [id \in {TripMarket} |->
                    [NewMarket(TripB) EXCEPT
                        !.no = TripNo,
                        !.implied_odds = lmsr_price(0, TripNo, TripB),
                        !.volume_traded = TripPaid]]
    /\ balances = [a \in Users \cup {POOL_ID} |->
                     IF a = POOL_ID THEN TripPaid ELSE TripDeposit]
    /\ bets = [k \in {<<"u2", TripMarket, "NO">>} |->
                 [shares |-> TripNo, cost_basis |-> TripPaid]]
    /\ trades = <<[user |-> "u2", market |-> TripMarket, outcome |-> "NO",
                   shares |-> TripNo, amount |-> TripPaid,
                   price |-> DivFix(TripPaid, TripNo),
                   balance |-> TripDeposit, task |-> 0]>>
    /\ transfers = <<>>
    /\ resolutions = <<>>
    /\ views = [v \in ViewIds |-> NoView]
    /\ tasks = [t \in TaskIds |-> IdleTask]
    /\ resolving = <<>>
    /\ reply = Reply("none", 0, 0)
    /\ ndeleted = [mid \in MarketIds |-> 0]
    /\ solver = IdleSolver

NextTrip ==
    \/ \E v \in ViewIds, u \in Users, id \in MarketIds, o \in Sides,
          a \in TripAmounts : buy(v, u, id, o, a)
    \/ \E v \in ViewIds, u \in Users, id \in MarketIds, o \in Sides,
          p \in SellPercents : sell(v, u, id, o, p)
    \/ \E t \in TaskIds, v \in ViewIds : BuyConfirmView_confirm(t, v, MaxSerial)
    \/ \E t \in TaskIds, v \in ViewIds : SellConfirmView_confirm(t, v, MaxSerial)
    \/ Step

SpecTrip == InitTrip /\ [][NextTrip]_vars

(* Two markets side by side: a purchase on each, the Confirm callbacks     *)
(* running concurrently.                                                   *)
PairIds == {"m1", "m2"}
PairB   == 2
\* the first quote is for one market, the second for the other
PairMarket(v) == IF v = 1 THEN "m1" ELSE "m2"

InitPair ==
    /\ markets = [id \in PairIds |-> NewMarket(PairB)]
    /\ balances = [a \in Users \cup {POOL_ID} |->
                     IF a = POOL_ID THEN 0 ELSE InitialDeposit]
    /\ bets = EmptyMap
    /\ trades = <<>>
    /\ transfers = <<>>
    /\ resolutions = <<>>
    /\ views = [v \in ViewIds |-> NoView]
    /\ tasks = [t \in TaskIds |-> IdleTask]
    /\ resolving = <<>>
    /\ reply = Reply("none", 0, 0)
    /\ ndeleted = [mid \in MarketIds |-> 0]
    /\ solver = IdleSolver

NextPair ==
    \/ \E v \in ViewIds : \E u \in QuoteUsers(v), o \in QuoteSides(v),
          a \in BuyAmounts : buy(v, u, PairMarket(v), o, a)
    \/ \E t \in TaskIds, v \in ViewIds : BuyConfirmView_confirm(t, v, MaxTasks)
    \/ Step

SpecPair == InitPair /\ [][NextPair]_vars

(* The concurrent trades on a market that already has a position.          *)
SpecHeld == InitHeld /\ [][NextRace]_vars

---------------------------------------------------------------------------
(* Properties of the trade confirmations *)

AllEffects == {"balance", "pool", "position", "market", "log"}

\* C1: no buy or sell confirmation that finds its market resolved when it
\* re-validates the quote changes a balance, the pool, a position, the market
\* or the trade log
NoCommitOnResolved ==
    \A t \in TaskIds : tasks[t].resolved_at_check => tasks[t].effects = {}

\* C2: a confirmation whose recomputed average price differs from the quoted
\* one by more than 1e-6 ends with PriceMoved and has changed no balance,
\* pool, position, market or trade-log state (new_avg is 0 until recomputed)
PriceMovedChangesNothing ==
    \A t \in TaskIds :
        /\ tasks[t].pc # "idle"
        /\ tasks[t].new_avg # 0
        /\ Abs(tasks[t].new_avg - ViewOf(t).price) * MicroPerUnit > PRICE_TOL_MICRO
        => /\ tasks[t].pc = "done"
           /\ tasks[t].result = "PriceMoved"
           /\ tasks[t].effects = {}

\* a drifted confirmation was refused, both above and below the quoted price
PriceMovedSeen ==
    \E t \in TaskIds :
        /\ tasks[t].result = "PriceMoved"
        /\ tasks[t].new_avg # 0
        /\ Abs(tasks[t].new_avg - ViewOf(t).price) * MicroPerUnit > PRICE_TOL_MICRO
        /\ trades # <<>>

\* two buy quotes on the same market and outcome, priced on the same
\* quantities of a market that has seen no trade commit between them
SameStateBuys(t1, t2) ==
    /\ t1 # t2
    /\ tasks[t1].pc # "idle" /\ tasks[t2].pc # "idle"
    /\ tasks[t1].view # tasks[t2].view
    /\ ViewOf(t1).kind = "buy" /\ ViewOf(t2).kind = "buy"
    /\ ViewOf(t1).market = ViewOf(t2).market
    /\ ViewOf(t1).outcome = ViewOf(t2).outcome
    /\ ViewOf(t1).quoted_at = ViewOf(t2).quoted_at

\* C3: of two buys quoted on the same pre-trade state of a market and outcome,
\* at most one is ever committed
AtMostOneSameStateBuy ==
    \A t1, t2 \in TaskIds :
        SameStateBuys(t1, t2) => ~(tasks[t1].result = "ok" /\ tasks[t2].result = "ok")

\* C4: a confirmation whose handler is no longer running has applied all of
\* its effects (balance and pool, position, market, trade log) or none
AllOrNoEffects ==
    \A t \in TaskIds :
        tasks[t].pc = "done" => tasks[t].effects \in {{}, AllEffects}

\* the sums over the first n rows of the trade log for market id
RECURSIVE LoggedShares(_, _, _)
LoggedShares(n, id, side) ==
    IF n = 0 THEN 0
    ELSE LoggedShares(n - 1, id, side)
         + (IF trades[n].market = id /\ trades[n].outcome = side
            THEN trades[n].shares ELSE 0)

RECURSIVE LoggedVolume(_, _)
LoggedVolume(n, id) ==
    IF n = 0 THEN 0
    ELSE LoggedVolume(n - 1, id)
         + (IF trades[n].market = id THEN Abs(trades[n].amount) ELSE 0)

\* C5: once the confirmations on a market have succeeded, its outstanding
\* shares and its volume_traded reflect every one of them
NoLostMarketUpdate ==
    Running = {} =>
        \A id \in DOMAIN markets :
            ndeleted[id] = 0 =>
                /\ markets[id].yes = LoggedShares(Len(trades), id, "YES")
                /\ markets[id].no = LoggedShares(Len(trades), id, "NO")
                /\ markets[id].volume_traded = LoggedVolume(Len(trades), id)

RECURSIVE SumOver(_, _)
SumOver(f, keys) ==
    IF keys = {} THEN 0
    ELSE LET k == CHOOSE x \in keys : TRUE
         IN  f[k] + SumOver(f, keys \ {k})

\* C6: trades move money between a user and the pool only: with no handler
\* running and no resolution paid, the balances of the users and the pool sum
\* to what was deposited
BalancesConserved ==
    Running = {} /\ resolutions = <<>> =>
        SumOver(balances, DOMAIN balances) = Cardinality(Users) * InitialDeposit

---------------------------------------------------------------------------
(* Properties of the resolution *)

\* what resolving market_id as correct owes the account a
Credit(a, market_id, correct) ==
    LET Owed(o) ==
            IF <<a, market_id, o>> \notin DOMAIN bets THEN 0
            ELSE IF correct = "HALF" THEN bets[<<a, market_id, o>>].shares \div 2
            ELSE IF o = correct THEN bets[<<a, market_id, o>>].shares
            ELSE 0
    IN  Owed("YES") + Owed("NO")

PaidAtMostOnce ==
    \A id \in MarketIds, u \in Users, o \in Sides :
        ndeleted[id] = 0 =>
            Cardinality({k \in DOMAIN resolutions :
                           /\ resolutions[k].market = id
                           /\ resolutions[k].user = u
                           /\ resolutions[k].outcome = o
                           /\ resolutions[k].redeemed > 0}) <= 1

\* C9: a resolve call on a missing market answers NotFound, on a resolved
\* market AlreadyResolved, and changes no market, balance, position or
\* resolution-log state, nor starts a resolution
ResolveRejected ==
    [][\A id \in MarketIds :
          resolve_market(id) =>
              /\ id \notin DOMAIN markets =>
                    reply'.result = "NotFound" /\ UNCHANGED <<db, resolving>>
              /\ id \in DOMAIN markets /\ markets[id].resolved =>
                    reply'.result = "AlreadyResolved" /\ UNCHANGED <<db, resolving>>]_vars

\* a resolve call was refused on a market that had been resolved and paid
ResolvedTwiceRefused ==
    /\ reply.result = "AlreadyResolved"
    /\ resolutions # <<>>
    /\ \E id \in DOMAIN markets : markets[id].resolved

\* the rows a step appended to the resolution log
NewRows == {k \in DOMAIN resolutions' : k > Len(resolutions)}

\* C10: the step that commits a resolution marks the market resolved and
\* credits and logs every position of the market; an interrupted resolution
\* changes no market, balance or resolution-log state
ResolutionAllOrNothing ==
    [][/\ \A i \in 1 .. MaxResolving, c \in Resolutions :
             resolve_commit(i, c) =>
                 /\ resolving[i] \in DOMAIN markets =>
                        markets'[resolving[i]].resolved
                 /\ \A u \in Users, o \in Sides :
                        <<u, resolving[i], o>> \in DOMAIN bets =>
                            \E k \in NewRows :
                                /\ resolutions'[k].user = u
                                /\ resolutions'[k].market = resolving[i]
                                /\ resolutions'[k].outcome = o
                                /\ resolutions'[k].shares =
                                       bets[<<u, resolving[i], o>>].shares
                 /\ SumOver(balances', DOMAIN balances') =
                        SumOver(balances, DOMAIN balances)
                        + SumOver([k \in NewRows |-> resolutions'[k].redeemed],
                                  NewRows)
       /\ \A i \in 1 .. MaxResolving :
             resolve_interrupted(i) => UNCHANGED <<markets, balances, resolutions>>
      ]_vars

\* a resolution of a market with positions was interrupted and left the
\* market unresolved, with nothing paid
InterruptedLeftNothing ==
    /\ reply.result = "Interrupted"
    /\ resolutions = <<>>
    /\ \E id \in DOMAIN markets :
          ~markets[id].resolved /\ PositionsOf(bets, id) # <<>>

---------------------------------------------------------------------------
(* Properties of the stored records *)

\* C11: the resolved flag of a market is one-way: no step takes a market's
\* flag from true back to false
ResolvedOneWay ==
    [][\A id \in DOMAIN markets :
          (markets[id].resolved /\ id \in DOMAIN markets')
          => markets'[id].resolved]_vars

\* C12: no buy confirmation takes a user's balance below zero
NoOverdraft ==
    \A u \in Users : u \in DOMAIN balances => balances[u] >= 0

\* C15: the outstanding shares of each outcome of every market are
\* non-negative
QuantitiesNonNegative ==
    \A id \in DOMAIN markets : markets[id].yes >= 0 /\ markets[id].no >= 0

\* C13: a sell confirmation removes no more shares from a position than the
\* position holds when the shares are removed
SellWithinHolding ==
    [][\A t \in TaskIds :
          (add_bet_write(t) /\ ViewOf(t).kind = "sell")
          => current_bet(bets, ViewOf(t).user, ViewOf(t).market,
                         ViewOf(t).outcome).shares >= ViewOf(t).shares]_vars

\* C14: every stored position record has shares strictly greater than zero
PositionsPositive ==
    \A k \in DOMAIN bets : bets[k].shares > 0

\* a position was sold off and its record is gone
PositionSoldOff ==
    \E i \in DOMAIN trades :
        /\ trades[i].shares < 0
        /\ <<trades[i].user, trades[i].market, trades[i].outcome>> \notin DOMAIN bets
        /\ \A t \in TaskIds : tasks[t].pc \in {"idle", "done"}

\* C16: the volume_traded of a market never decreases
VolumeNeverDecreases ==
    [][\A id \in DOMAIN markets :
          id \in DOMAIN markets'
          => markets'[id].volume_traded >= markets[id].volume_traded]_vars

\* C17: in every stored market record the cached implied_odds is the
\* marginal YES price of that record's quantities and b
ImpliedOddsCached ==
    \A id \in DOMAIN markets :
        markets[id].implied_odds
            = lmsr_price(markets[id].yes, markets[id].no, markets[id].b)

\* a handler has saved a market whose odds are no longer even
OddsMoved ==
    \E id \in DOMAIN markets :
        /\ markets[id].last_trade # 0
        /\ markets[id].implied_odds # SCALE \div 2
        /\ markets[id].implied_odds # lmsr_price(HeldShares, 0, HeldB)

---------------------------------------------------------------------------
(* Properties of the requests *)

\* C18: requesting a buy or sell quote changes no market, position or
\* balance record and no log, whether the quote is issued or refused
QuotePure ==
    [][\A v \in ViewIds, u \in Users \cup Newcomers, id \in MarketIds,
          o \in Sides :
          (\/ \E a \in BuyAmounts : buy(v, u, id, o, a)
           \/ \E p \in SellPercents : sell(v, u, id, o, p))
          => UNCHANGED db]_vars

\* C19: cancelling a pending buy, sell or transfer quote, or letting it
\* expire, changes no market, position, balance or log state
CancelPure ==
    [][\A v \in ViewIds : (cancel(v) \/ on_timeout(v)) => UNCHANGED db]_vars

\* a trade quote and a transfer quote were closed without being confirmed
QuotesDiscarded ==
    \E v, w \in ViewIds :
        /\ views[v].state = "closed" /\ views[v].kind \in {"buy", "sell"}
        /\ views[w].state = "closed" /\ views[w].kind = "send"
        /\ \A t \in TaskIds : tasks[t].pc = "idle"

\* C20: a request that is refused (it gets no confirmation view) leaves the
\* persisted state as it was
RejectionPure ==
    [][\A v \in ViewIds :
          (/\ views' = views
           /\ \/ \E u \in Users \cup Newcomers, id \in MarketIds, o \in Sides,
                    a \in BuyAmounts : buy(v, u, id, o, a)
              \/ \E u \in Users \cup Newcomers, id \in MarketIds, o \in Sides,
                    p \in SellPercents : sell(v, u, id, o, p)
              \/ \E u, r \in Users \cup Newcomers, a \in SendAmounts :
                    send(v, u, r, a))
          => UNCHANGED db]_vars

---------------------------------------------------------------------------
(* Properties of the logs *)

\* the rows of the trade log written by the handler t
RowsOf(t) == {i \in DOMAIN trades : trades[i].task = t}

\* C21: a confirmation that succeeds has appended exactly one trade-log row
\* and one that fails none; the row carries positive shares and dollars for
\* a buy and negative ones for a sell; rows are never changed or removed
TradeLogWriteOnce ==
    /\ [](\A t \in TaskIds :
             Cardinality(RowsOf(t)) = IF tasks[t].result = "ok" THEN 1 ELSE 0)
    /\ [][/\ \/ trades' = trades
             \/ /\ Len(trades') = Len(trades) + 1
                /\ SubSeq(trades', 1, Len(trades)) = trades
          /\ \A t \in TaskIds :
                log_trade(t) =>
                    LET row == trades'[Len(trades')]
                    IN  /\ Len(trades') = Len(trades) + 1
                        /\ ViewOf(t).kind = "buy"
                              => row.shares > 0 /\ row.amount > 0
                        /\ ViewOf(t).kind = "sell"
                              => row.shares < 0 /\ row.amount < 0]_vars

\* a buy and a sell were logged, and a confirmation was refused
BuyAndSellLogged ==
    /\ \E i, j \in DOMAIN trades : trades[i].shares > 0 /\ trades[j].shares < 0
    /\ \E t \in TaskIds : tasks[t].result \in {"PriceMoved", "KeyError"}

\* C22: no position of a market ever gets more than one resolution-log row
LoggedOncePerPosition ==
    \A id \in MarketIds, u \in Users, o \in Sides :
        ndeleted[id] = 0 =>
            Cardinality({k \in DOMAIN resolutions :
                           /\ resolutions[k].market = id
                           /\ resolutions[k].user = u
                           /\ resolutions[k].outcome = o}) <= 1

\* the shares held on one side of a market, over all users
SideShares(id, side) ==
    SumOver([u \in Users |-> current_bet(bets, u, id, side).shares], Users)

OtherSide(side) == IF side = "YES" THEN "NO" ELSE "YES"

ResolutionKeepsPositions ==
    [][\A i \in 1 .. MaxResolving, c \in Resolutions :
          resolve_commit(i, c) => bets' = bets]_vars

\* a market is resolved and paid, and its positions are still stored
PaidPositionsKept ==
    \E id \in DOMAIN markets :
        /\ markets[id].resolved
        /\ PositionsOf(bets, id) # <<>>
        /\ \E k \in DOMAIN resolutions :
              resolutions[k].market = id /\ resolutions[k].redeemed > 0

\* C25: resolution leaves the pool account as it was, for every outcome
ResolutionKeepsPool ==
    [][\A i \in 1 .. MaxResolving, c \in Resolutions :
          resolve_commit(i, c) =>
              IF POOL_ID \in DOMAIN balances
              THEN /\ POOL_ID \in DOMAIN balances'
                   /\ balances'[POOL_ID] = balances[POOL_ID]
              ELSE POOL_ID \notin DOMAIN balances']_vars

\* a resolution paid out more than the pool holds
PaidBeyondPool ==
    /\ reply.result = "ok"
    /\ POOL_ID \in DOMAIN balances
    /\ reply.total_paid > balances[POOL_ID]
    /\ Running = {}

\* C26: create_market with an id that exists answers DuplicateId and leaves
\* the market's record as it was; with a fresh id it stores a market with no
\* YES and no NO shares, not resolved and with no resolution
CreateMarketChecked ==
    [][\A id \in MarketIds, b \in LiquidityVals :
          create_market(id, b) =>
              IF id \in DOMAIN markets
              THEN /\ reply'.result = "DuplicateId"
                   /\ markets' = markets
              ELSE /\ reply'.result = "created"
                   /\ DOMAIN markets' = DOMAIN markets \cup {id}
                   /\ markets'[id].b = b
                   /\ markets'[id].yes = 0
                   /\ markets'[id].no = 0
                   /\ ~markets'[id].resolved
                   /\ markets'[id].resolution = "None"
                   /\ \A o \in DOMAIN markets : markets'[o] = markets[o]]_vars

\* a market that has been traded in was created again and refused
TradedMarketRefused ==
    /\ reply.result = "DuplicateId"
    /\ \E id \in DOMAIN markets : markets[id].yes + markets[id].no > 0

\* C27: every market that exists has a liquidity parameter b above zero
LiquidityPositive ==
    \A id \in DOMAIN markets : markets[id].b > 0

\* what get_balance did in a step that called it for account a and got v back
GetBalanceContract(a, v) ==
    IF a \in DOMAIN balances
    THEN balances' = balances /\ v = balances[a]
    ELSE /\ balances' = Put(balances, a, DEFAULT_USER_BALANCE)
         /\ v = DEFAULT_USER_BALANCE

\* C28: get_balance on an account without a record creates the record with
\* the default balance and returns it; on an account with a record it returns
\* the stored balance and changes nothing; no step deletes a balance record
GetBalanceCreatesOnce ==
    [][/\ DOMAIN balances \subseteq DOMAIN balances'
       /\ \A t \in TaskIds :
             /\ update_balance_read(t) => GetBalanceContract(Account(t), tasks'[t].bal)
             /\ read_balance(t) =>
                   GetBalanceContract(ViewOf(t).user, tasks'[t].balance)
       /\ \A v \in ViewIds, u \in Users \cup Newcomers, id \in MarketIds,
             o \in Sides, a \in BuyAmounts :
             buy(v, u, id, o, a) =>
                 \/ balances' = balances
                 \/ /\ u \notin DOMAIN balances
                    /\ balances' = Put(balances, u, DEFAULT_USER_BALANCE)]_vars

\* a callback has read and debited the stored balance of its user, and got
\* the default balance of the pool account that its read created
PoolAccountCreated ==
    /\ POOL_ID \in DOMAIN balances
    /\ \E t \in TaskIds :
          /\ tasks[t].pc = "pool_set"
          /\ tasks[t].bal = DEFAULT_USER_BALANCE
          /\ "balance" \in tasks[t].effects

---------------------------------------------------------------------------
(* Properties of the transfers *)

\* C29: transfers move money between accounts only: with no handler running,
\* the balances sum to what was deposited
TransfersConserve ==
    Running = {} =>
        SumOver(balances, DOMAIN balances) = Cardinality(Users) * InitialDeposit

\* C30: no transfer leaves the sender's balance negative
SenderNeverNegative ==
    \A u \in DOMAIN balances : balances[u] >= 0

---------------------------------------------------------------------------
(* Properties of the share solver *)

\* C31: every calc_shares call returns
SolverTerminates == <>(solver.pc = "done")

\* the cost at dq shares more on the solver's side, without the float range
ExactCostAt(dq) ==
    CostAfter(dq, solver.q_yes, solver.q_no, solver.b, solver.side)

\* C32: the result dq of calc_shares has
\* |cost(q + dq) - cost(q) - delta_cash| < tol, during the bisection
\* cost(low) <= target <= cost(high), and the result lies between low and
\* high
SolverWithinTol ==
    /\ solver.pc = "bisect" =>
          /\ IsFinite(solver.low) /\ IsFinite(solver.high)
          /\ IsFinite(solver.target)
          /\ solver.low <= solver.high
          /\ ExactCostAt(solver.low) <= solver.target
          /\ solver.target <= ExactCostAt(solver.high)
    /\ solver.pc = "done" =>
          /\ IsFinite(solver.result)
          /\ solver.low <= solver.result /\ solver.result <= solver.high
          /\ WithinTol(ExactCostAt(solver.result)
                          - lmsr_cost(solver.q_yes, solver.q_no, solver.b)
                          - solver.delta_cash)

---------------------------------------------------------------------------
(* Properties of a purchase sold again *)

\* the first callback bought view v's shares and the second sold the same
\* shares again
BoughtAndSoldBack(v, w) ==
    /\ tasks[1].result = "ok" /\ tasks[1].view = v
    /\ tasks[2].result = "ok" /\ tasks[2].view = w
    /\ views[v].kind = "buy" /\ views[w].kind = "sell"
    /\ views[w].user = views[v].user
    /\ views[w].market = views[v].market
    /\ views[w].outcome = views[v].outcome
    /\ views[w].shares = views[v].shares

\* C33: after buying shares and selling the same shares again the user's
\* balance, the pool's balance, the market's quantities and the position are
\* what they were before the purchase
RoundTripExact ==
    \A v, w \in ViewIds :
        BoughtAndSoldBack(v, w) =>
            /\ balances[views[v].user] = TripDeposit
            /\ balances[POOL_ID] = TripPaid
            /\ markets[TripMarket].yes = 0
            /\ markets[TripMarket].no = TripNo
            /\ current_bet(bets, views[v].user, TripMarket, views[v].outcome).shares
                  = IF views[v].user = "u2" /\ views[v].outcome = "NO"
                    THEN TripNo ELSE 0

---------------------------------------------------------------------------
(* Properties of deletion and of the stored market records *)

\* C34: a delete of a market whose resolved flag is set removes nothing
DeleteOnlyUnresolved ==
    [][\A id \in MarketIds :
          (id \in DOMAIN markets /\ markets[id].resolved)
              => id \in DOMAIN markets']_vars

\* C35: in every stored market record resolution and resolution_date are
\* unset exactly when resolved is false, and the resolution of a resolved
\* market is YES, NO or HALF
ResolutionFieldsAgree ==
    \A id \in DOMAIN markets :
        /\ ~markets[id].resolved <=> markets[id].resolution = "None"
        /\ ~markets[id].resolved <=> markets[id].resolution_date = 0
        /\ markets[id].resolved => markets[id].resolution \in Resolutions

\* the stored record of a market with a confirmed trade is resolved
ResolvedRecordRewritten ==
    \E id \in DOMAIN markets, t \in TaskIds :
        /\ markets[id].resolved
        /\ markets[id].resolution \in Resolutions
        /\ tasks[t].pc = "done" /\ tasks[t].result = "ok"
        /\ views[tasks[t].view].market = id
        /\ markets[id].last_trade > 0

---------------------------------------------------------------------------
(* Properties of the quotes *)

\* the Confirm callbacks of view v that have applied its trade or transfer
Committing(v) ==
    {t \in TaskIds : tasks[t].pc = "done" /\ tasks[t].view = v
                        /\ tasks[t].result = "ok"}

\* C36: a quote is committed at most once: at most one Confirm callback of
\* a view applies its trade or transfer
QuoteCommittedOnce ==
    \A v \in ViewIds : Cardinality(Committing(v)) <= 1

---------------------------------------------------------------------------
(* Properties of the markets' share totals *)

\* C37: while no trade confirmation is in progress, every market's
\* outstanding YES and NO totals equal the shares of the stored positions in
\* that market and outcome, summed over the users
TotalsMatchPositions ==
    Running = {} =>
        \A id \in DOMAIN markets, side \in Sides :
            Shares(markets[id], side) = SideShares(id, side)

\* C38: the save of a confirmed trade on one market leaves the stored
\* record of every other market as it is
TradeLeavesOtherMarkets ==
    [][\A t \in TaskIds :
          write_markets(t) =>
              \A id \in DOMAIN markets \ {ViewOf(t).market} :
                  /\ id \in DOMAIN markets'
                  /\ markets'[id] = markets[id]]_vars

---------------------------------------------------------------------------
(* Properties of the accounts behind the positions *)

\* C39: every user who holds a stored position has a balance record, and so
\* has every user a resolution has logged a payout for
OwnersHaveBalance ==
    /\ \A k \in DOMAIN bets : k[1] \in DOMAIN balances
    /\ \A k \in DOMAIN resolutions : resolutions[k].user \in DOMAIN balances

\* a resolution has credited the owner of a stored position
OwnerCredited ==
    \E k \in DOMAIN resolutions :
        /\ resolutions[k].redeemed > 0
        /\ <<resolutions[k].user, resolutions[k].market, resolutions[k].outcome>>
              \in DOMAIN bets
        /\ resolutions[k].user \in DOMAIN balances
        /\ balances[resolutions[k].user] >= resolutions[k].redeemed

\* C40: the pool account's balance is never negative
PoolNeverNegative ==
    POOL_ID \in DOMAIN balances => balances[POOL_ID] >= 0

===========================================================================
